---------------------------- MODULE Spec2Model ----------------------------
(***************************************************************************)
(* Model of the Codex HTTP session gateway (examples/http-server/demo.sh,  *)
(* the TypeScript server part, lines 54-339) and of the Vertex AI stream   *)
(* adapter (src/utils/agent/vertex-ai-client.ts).                          *)
(*                                                                         *)
(* Text is modelled as a sequence of tokens, so that concatenation and     *)
(* join are sequence operations.  Session ids are naturals: 0 is the       *)
(* absent / empty (falsy) id, the ids of ClientIds are chosen by callers,  *)
(* and the k-th value returned by randomUUID() is a fresh id.              *)
(***************************************************************************)
EXTENDS Integers, Sequences, FiniteSets, TLC

(* ------------------------------ bounds --------------------------------- *)
MaxReq == 3          \* HTTP requests (POST /chat, DELETE /sessions) in one run
MaxEmit == 2         \* messages emitted by agents in one run
MaxChunks == 3       \* native chunks the upstream yields
MaxCalls == 3        \* tool calls of one message given to the filter
MaxLookups == 3      \* calls of the model cache's functions in one run

(* --------------------------- capability sets --------------------------- *)
READ_ONLY_TOOLS ==
  {"Read", "Glob", "Grep", "LS", "NotebookRead", "WebFetch", "WebSearch", "TodoRead"}

WRITE_TOOLS ==
  {"Edit", "MultiEdit", "Write", "NotebookEdit", "Bash", "TodoWrite", "Task"}

KeepEveryCall(toolCall) == TRUE

isReadOnlyToolCall(toolCall) == toolCall.name \in READ_ONLY_TOOLS

NotReadOnly(toolCall) == toolCall.name \notin READ_ONLY_TOOLS

isWriteToolCall(toolCall) == toolCall.name \in WRITE_TOOLS

(* Array.prototype.join(", ") over the names of a sequence of tool calls *)
RECURSIVE JoinNames(_)
JoinNames(calls) ==
  IF Len(calls) = 0 THEN <<>>
  ELSE IF Len(calls) = 1 THEN <<calls[1].name>>
  ELSE <<calls[1].name, ", ">> \o JoinNames(Tail(calls))

NoteHead == "I can see you'd like me to perform write operations ("
NoteTail == "), but I'm running in read-only mode via HTTP. [...] Would you like me to help you explore or analyze your code instead?"

NoNote(writeToolCalls) == <<>>

friendlyMessage(writeToolCalls) ==
  <<NoteHead>> \o JoinNames(writeToolCalls) \o <<NoteTail>>

(* the filter left out: the item is passed on as it is *)
FilterNothing(item) == item

(* A message: role, content (a string when contentIsString, else parts or *)
(* null), tool_calls (present and truthy when hasToolCalls), tool_call_id  *)
filterMessageForReadOnly(item) ==
  IF item.role = "assistant" /\ item.hasToolCalls
  THEN LET writeToolCalls == SelectSeq(item.tool_calls, isWriteToolCall)
           readToolCalls == SelectSeq(item.tool_calls, isReadOnlyToolCall)
       IN IF Len(writeToolCalls) > 0
          THEN IF Len(readToolCalls) > 0
               THEN [item EXCEPT
                       !.tool_calls = readToolCalls,
                       !.contentIsString = TRUE,
                       !.content = (IF item.contentIsString
                                    THEN item.content \o <<"\n\n">>
                                    ELSE <<>>) \o friendlyMessage(writeToolCalls)]
               ELSE [item EXCEPT
                       !.hasToolCalls = FALSE,
                       !.tool_calls = <<>>,
                       !.contentIsString = TRUE,
                       !.content = friendlyMessage(writeToolCalls)]
          ELSE item
  ELSE item

(* ------------------- messages an agent may emit ------------------------ *)
Call(id, name) == [id |-> id, name |-> name]

Msg(role, isStr, content, hasCalls, calls, callId) ==
  [role |-> role, contentIsString |-> isStr, content |-> content,
   hasToolCalls |-> hasCalls, tool_calls |-> calls, tool_call_id |-> callId]

Items ==
  { Msg("assistant", TRUE, <<"ok">>, FALSE, <<>>, ""),
    Msg("assistant", TRUE, <<"plan">>,
        TRUE, <<Call("c1", "Read"), Call("c2", "Edit")>>, ""),
    Msg("assistant", FALSE, <<>>, TRUE, <<Call("c3", "Bash")>>, "") }

(* ------------------------ thrown values -------------------------------- *)
Thrown ==
  { [isError |-> TRUE, message |-> "ENOENT: no such file"],
    [isError |-> TRUE, message |-> ""],
    [isError |-> FALSE, message |-> "rejected with a non-Error value"] }

(* what createInputItem rejects with: the error of fs.readFile *)
ReadFileErrors == {e \in Thrown : e.isError /\ e.message # ""}

(* error instanceof Error ? error.message : "Unknown error" *)
errorMessageOf(error) == IF error.isError THEN error.message ELSE "Unknown error"

(* ------------------------------ state ---------------------------------- *)
(* Callers: each sends one request at a time and waits for its answer, so  *)
(* as many handlers run concurrently as there are callers.  Callers are    *)
(* interchangeable: of the idle ones, the least sends next.                *)
Clients == {1, 2}

VARIABLES
  activeSessions,   \* the registry: session id -> agent
  agents,           \* agent -> [sink, approvalPolicy, confirmation]; sink is the
                    \* caller whose handler's messages array onItem pushes into
                    \* (0 once that handler has returned)
  terminated,       \* agent -> number of terminate() calls
  registeredAs,     \* history: agent -> the session id it was registered under
  uuidCount,        \* values returned by randomUUID() so far
  nReq,             \* HTTP requests received so far
  pc,               \* caller -> position of its handleChatRequest
  given,            \* caller -> chatRequest.sessionId (0: absent or empty)
  sessionId,        \* caller -> the handler's sessionId (0: not yet set)
  agentOf,          \* caller -> the handler's agent (0: none)
  messages,         \* caller -> the handler's messages array
  emitted,          \* history: caller -> messages the agent emitted in the turn
  parsed,           \* history: the chatRequest parsed by the last step, with its
                    \* caller (NoRequest if the step parsed none)
  raced,            \* history: caller -> another handler was in flight on the
                    \* same agent at some time of its turn
  written,          \* the HTTP response written by the last step, if any
  turn,             \* history: the turn that a /chat response in written answers
  bound,            \* history: session id -> agent of the latest POST /chat with
                    \* that id since the latest DELETE of that id
  nEmit             \* messages emitted so far

gwVars == <<activeSessions, agents, terminated, registeredAs, uuidCount, nReq, pc,
            given, sessionId, agentOf, messages, emitted, raced, written, turn,
            parsed, bound, nEmit>>

(* the state of one stream of the stream adapter (vertex-ai-client.ts) *)
VARIABLES
  upstream,     \* the native chunks the upstream yields, in order
  upFails,      \* whether the upstream raises an error after them
  pumped,       \* native chunks the pump has taken (its index)
  pumpPc,       \* "iterating", or "exited" once the pump has returned
  buffer,       \* the Readable's buffer
  ended,        \* the Readable has been pushed null (EOF)
  destroyed,    \* the Readable is destroyed
  errored,      \* the error raised on the Readable ("": none)
  consumed,     \* the chunks the consumer has observed, in order
  consumerPc,   \* "idle" (not iterating yet), "reading", "ended" (end of stream
                \* seen), "failed" (error seen)
  unhandled,    \* an emitted error found no listener and was thrown out of the pump
  aborted,      \* controller.abort() has been called
  abortAt       \* history: how many chunks the consumer had observed then

stVars == <<upstream, upFails, pumped, pumpPc, buffer, ended, destroyed, errored,
            consumed, consumerPc, unhandled, aborted, abortAt>>

(* one use of the capability filter on its own (demo.sh) *)
VARIABLES
  fItem,        \* the argument of filterMessageForReadOnly
  fOut,         \* what the latest call returned
  fCalls        \* calls made: 0, 1, or 2 (the second on the first one's result)

flVars == <<fItem, fOut, fCalls>>

(* the model availability cache (model-utils.ts) and the calls in progress *)
VARIABLES
  apiKey,         \* config.apiKey is set
  backendFails,   \* the backend's model list request fails
  backendList,    \* the model ids the backend lists when it does not fail
  modelsPromise,  \* "null", or the promise's state: "pending", "fulfilled"
  models,         \* the value modelsPromise is fulfilled with
  fetches,        \* calls of fetchModels so far
  listCalls,      \* calls of openai.models.list() so far
  reports,        \* calls of reportMissingAPIKey() so far
  lookup,         \* caller -> the call it is suspended in, or NoCall
  nLookups,       \* calls made so far
  returned        \* the call that returned in the last step, or NoReturn

mcVars == <<apiKey, backendFails, backendList, modelsPromise, models, fetches,
            listCalls, reports, lookup, nLookups, returned>>

(* the adapter's conversion of one uniform message to the native format *)
VARIABLES
  chatMessage,  \* the uniform message given to create(), or NoChatMessage
  contents      \* the native contents built from it: <<>> before the conversion

cvVars == <<chatMessage, contents>>

ClientIds == {1}

randomUUID(k) == Cardinality(ClientIds) + k

Minted == {randomUUID(k) : k \in 1..uuidCount}

SessionIds == ClientIds \cup Minted

(* a response: route is "chat" or "sessions"; body names the key of the    *)
(* JSON body of a /sessions answer and of a 500 answer                     *)
NoResponse == [route |-> "", code |-> 0, body |-> "", sessionId |-> 0,
               messages |-> <<>>, status |-> "", hasError |-> FALSE, error |-> ""]

NoTurn == [caller |-> 0, emitted |-> <<>>, failure |-> FALSE, agent |-> 0, given |-> 0,
           raced |-> FALSE]

(* no response is written by this step *)
(* chatRequest.approvalMode as a caller can send it ("": absent) *)
ApprovalModes == {"", "suggest", "auto-edit", "full-auto"}

(* a parsed body {prompt, sessionId?, approvalMode?} *)
ChatRequest(sid, approvalMode) == [sessionId |-> sid, approvalMode |-> approvalMode]

NoRequest == [caller |-> 0, chatRequest |-> ChatRequest(0, "")]

Silent == written' = NoResponse /\ turn' = NoTurn /\ parsed' = NoRequest

approvalPolicy == "suggest"

NO_CONTINUE == "no-continue"

GatewayInit ==
  /\ activeSessions = <<>>
  /\ agents = <<>>
  /\ terminated = <<>>
  /\ registeredAs = <<>>
  /\ uuidCount = 0
  /\ nReq = 0
  /\ pc = [c \in Clients |-> "idle"]
  /\ given = [c \in Clients |-> 0]
  /\ sessionId = [c \in Clients |-> 0]
  /\ agentOf = [c \in Clients |-> 0]
  /\ messages = [c \in Clients |-> <<>>]
  /\ emitted = [c \in Clients |-> <<>>]
  /\ raced = [c \in Clients |-> FALSE]
  /\ written = NoResponse
  /\ turn = NoTurn
  /\ parsed = NoRequest
  /\ bound = <<>>
  /\ nEmit = 0

(* ----------------------------- gateway --------------------------------- *)

(* runServer routes POST /chat to handleChatRequest, which starts reading  *)
(* the body and suspends.                                                  *)
ChatArrive(c) ==
  /\ pc[c] = "idle"
  /\ \A d \in Clients : d < c => pc[d] # "idle"
  /\ nReq < MaxReq
  /\ nReq' = nReq + 1
  /\ pc' = [pc EXCEPT ![c] = "reading"]
  /\ Silent
  /\ UNCHANGED <<activeSessions, agents, terminated, registeredAs, uuidCount, given,
                 sessionId, agentOf, messages, emitted, raced, bound, nEmit>>
  /\ UNCHANGED <<stVars, flVars, mcVars, cvVars>>

(* The body did not parse: JSON.parse throws out of handleChatRequest into *)
(* runServer's catch, which answers 500.                                   *)
ChatMalformed(c) ==
  /\ pc[c] = "reading"
  /\ pc' = [pc EXCEPT ![c] = "idle"]
  /\ written' = [NoResponse EXCEPT !.route = "chat", !.code = 500, !.body = "error",
                                   !.error = "Internal server error"]
  /\ turn' = NoTurn
  /\ parsed' = NoRequest
  /\ UNCHANGED <<activeSessions, agents, terminated, registeredAs, uuidCount, nReq,
                 given, sessionId, agentOf, messages, emitted, raced, bound, nEmit>>
  /\ UNCHANGED <<stVars, flVars, mcVars, cvVars>>

(* new AgentLoop({... approvalPolicy, onItem, getCommandConfirmation ...}): *)
(* onItem pushes into the messages array of the handler that constructs   *)
(* the agent, the one of caller c                                          *)
NewAgentAsRequested(c, chatRequest) ==
  [sink |-> c,
   approvalPolicy |-> IF chatRequest.approvalMode = "" THEN approvalPolicy
                      ELSE chatRequest.approvalMode,
   confirmation |-> NO_CONTINUE]

NewAgent(c, chatRequest) ==
  [sink |-> c, approvalPolicy |-> approvalPolicy, confirmation |-> NO_CONTINUE]

(* const sessionId = chatRequest.sessionId || randomUUID() *)
AlwaysMint(sid, k) == randomUUID(k + 1)

ResolveSessionId(sid, k) == IF sid # 0 THEN sid ELSE randomUUID(k + 1)

(* m.get(sid) on a Map m; 0 stands for undefined *)
MapGetMiss(m, sid) == 0

MapGet(m, sid) == IF sid \in DOMAIN m THEN m[sid] ELSE 0

(* m.set(sid, a) on a Map m *)
MapSet(m, sid, a) == (sid :> a) @@ m

(* m.delete(sid) on a Map m *)
MapDeleteNothing(m, sid) == m

MapClear(m, sid) == <<>>

MapDelete(m, sid) == [s \in (DOMAIN m) \ {sid} |-> m[s]]

(* The body has been read and parses to chatRequest: the synchronous part  *)
(* of the handler up to the await of createInputItem.                      *)
ChatHandle(c, chatRequest) ==
  /\ pc[c] = "reading"
  /\ LET sid == chatRequest.sessionId
         id == ResolveSessionId(sid, uuidCount)
         agent == MapGet(activeSessions, id)
         a == Len(agents) + 1
     IN /\ uuidCount' = IF sid # 0 THEN uuidCount ELSE uuidCount + 1
        /\ given' = [given EXCEPT ![c] = sid]
        /\ sessionId' = [sessionId EXCEPT ![c] = id]
        /\ IF agent # 0
           THEN /\ agentOf' = [agentOf EXCEPT ![c] = agent]
                /\ bound' = (id :> agent) @@ bound
                /\ UNCHANGED <<activeSessions, agents, terminated, registeredAs>>
           ELSE /\ agents' = Append(agents, NewAgent(c, chatRequest))
                /\ terminated' = Append(terminated, 0)
                /\ registeredAs' = Append(registeredAs, id)
                /\ activeSessions' = MapSet(activeSessions, id, a)
                /\ agentOf' = [agentOf EXCEPT ![c] = a]
                /\ bound' = (id :> a) @@ bound
        /\ raced' = [d \in Clients |->
                       IF d = c
                       THEN \E e \in Clients \ {c} :
                              pc[e] \in {"building", "running"} /\ agentOf[e] = agent
                       ELSE raced[d] \/ (pc[d] \in {"building", "running"}
                                          /\ agentOf[d] = agent)]
        /\ pc' = [pc EXCEPT ![c] = "building"]
  /\ written' = NoResponse
  /\ turn' = NoTurn
  /\ UNCHANGED <<nReq, messages, emitted, nEmit>>
  /\ UNCHANGED <<stVars, flVars, mcVars, cvVars>>

ChatResolve(c, chatRequest) ==
  /\ ChatHandle(c, chatRequest)
  /\ parsed' = [caller |-> c, chatRequest |-> chatRequest]

(* the response written at the end of handleChatRequest *)
ChatResponse(c, hasError, errorMessage) ==
  [route |-> "chat", code |-> 200, body |-> "", sessionId |-> sessionId[c],
   messages |-> messages[c],
   status |-> IF hasError THEN "error" ELSE "completed",
   hasError |-> hasError, error |-> IF hasError THEN errorMessage ELSE ""]

(* the handler of caller c has returned: nobody reads its messages array   *)
(* any more, whatever an onItem closure still pushes into it               *)
Orphan(c) ==
  [a \in DOMAIN agents |->
     IF agents[a].sink = c THEN [agents[a] EXCEPT !.sink = 0] ELSE agents[a]]

(* the handler writes its response and returns: its locals are gone *)
Respond(c, hasError, errorMessage) ==
  /\ pc' = [pc EXCEPT ![c] = "idle"]
  /\ written' = ChatResponse(c, hasError, errorMessage)
  /\ turn' = [caller |-> c, emitted |-> emitted[c], failure |-> hasError,
              agent |-> agentOf[c], given |-> given[c], raced |-> raced[c]]
  /\ parsed' = NoRequest
  /\ given' = [given EXCEPT ![c] = 0]
  /\ sessionId' = [sessionId EXCEPT ![c] = 0]
  /\ agentOf' = [agentOf EXCEPT ![c] = 0]
  /\ emitted' = [emitted EXCEPT ![c] = <<>>]
  /\ raced' = [raced EXCEPT ![c] = FALSE]
  /\ messages' = [messages EXCEPT ![c] = <<>>]
  /\ agents' = Orphan(c)

(* createInputItem resolved: agent.run([inputItem]) is called *)
BuildDone(c) ==
  /\ pc[c] = "building"
  /\ pc' = [pc EXCEPT ![c] = "running"]
  /\ Silent
  /\ UNCHANGED <<activeSessions, agents, terminated, registeredAs, uuidCount, nReq,
                 given, sessionId, agentOf, messages, emitted, raced, bound, nEmit>>
  /\ UNCHANGED <<stVars, flVars, mcVars, cvVars>>

(* createInputItem rejected (an image could not be read): caught, answered *)
BuildFail(c, error) ==
  /\ pc[c] = "building"
  /\ Respond(c, TRUE, errorMessageOf(error))
  /\ UNCHANGED <<activeSessions, terminated, registeredAs, uuidCount, nReq, bound,
                 nEmit>>
  /\ UNCHANGED <<stVars, flVars, mcVars, cvVars>>

(* onItem of agent a: filter, then push into the array the closure holds,  *)
(* the messages array of the handler that constructed a.  What is pushed   *)
(* into the array of a handler that has returned is not kept in the state. *)
onItem(a, item) ==
  LET filteredItem == filterMessageForReadOnly(item)
  IN [c \in Clients |->
        IF agents[a].sink = c THEN Append(messages[c], filteredItem)
        ELSE messages[c]]

(* the agent emits a message while the turn of c's request runs *)
AgentEmit(c, item) ==
  /\ pc[c] = "running"
  /\ nEmit < MaxEmit
  /\ nEmit' = nEmit + 1
  /\ emitted' = [emitted EXCEPT ![c] = Append(@, item)]
  /\ messages' = onItem(agentOf[c], item)
  /\ Silent
  /\ UNCHANGED <<activeSessions, agents, terminated, registeredAs, uuidCount, nReq,
                 pc, given, sessionId, agentOf, raced, bound>>
  /\ UNCHANGED <<stVars, flVars, mcVars, cvVars>>

(* agent.run resolved *)
RunDone(c) ==
  /\ pc[c] = "running"
  /\ Respond(c, FALSE, "")
  /\ UNCHANGED <<activeSessions, terminated, registeredAs, uuidCount, nReq, bound,
                 nEmit>>
  /\ UNCHANGED <<stVars, flVars, mcVars, cvVars>>

(* agent.run rejected *)
RunFail(c, error) ==
  /\ pc[c] = "running"
  /\ Respond(c, TRUE, errorMessageOf(error))
  /\ UNCHANGED <<activeSessions, terminated, registeredAs, uuidCount, nReq, bound,
                 nEmit>>
  /\ UNCHANGED <<stVars, flVars, mcVars, cvVars>>

(* the answer of a DELETE /sessions request *)
SessionsResponse(sid, code, body) ==
  [NoResponse EXCEPT !.route = "sessions", !.code = code, !.body = body,
                     !.sessionId = sid]

(* a request that matches no route: runServer answers 404 *)
UnknownRoute ==
  /\ nReq < MaxReq
  /\ nReq' = nReq + 1
  /\ written' = [NoResponse EXCEPT !.route = "other", !.code = 404, !.body = "error",
                                   !.error = "Not found"]
  /\ turn' = NoTurn
  /\ parsed' = NoRequest
  /\ UNCHANGED <<activeSessions, agents, terminated, registeredAs, uuidCount, pc,
                 given, sessionId, agentOf, messages, emitted, raced, bound, nEmit>>
  /\ UNCHANGED <<stVars, flVars, mcVars, cvVars>>

(* DELETE /sessions/ with an empty id: runServer answers 400 *)
TerminateNoId ==
  /\ nReq < MaxReq
  /\ nReq' = nReq + 1
  /\ written' = SessionsResponse(0, 400, "error")
  /\ turn' = NoTurn
  /\ parsed' = NoRequest
  /\ UNCHANGED <<activeSessions, agents, terminated, registeredAs, uuidCount, pc,
                 given, sessionId, agentOf, messages, emitted, raced, bound, nEmit>>
  /\ UNCHANGED <<stVars, flVars, mcVars, cvVars>>

(* a DELETE /sessions/{sid} request is received *)
DeleteReceived(sid) ==
  /\ nReq < MaxReq
  /\ nReq' = nReq + 1
  /\ bound' = [s \in (DOMAIN bound) \ {sid} |-> bound[s]]
  /\ turn' = NoTurn
  /\ parsed' = NoRequest
  /\ UNCHANGED <<agents, registeredAs, uuidCount, pc, given, sessionId, agentOf,
                 messages, emitted, raced, nEmit>>

(* DELETE /sessions/{sid}: handleSessionTerminate *)
handleSessionTerminateAlwaysOk(sid) ==
  /\ DeleteReceived(sid)
  /\ LET agent == MapGet(activeSessions, sid)
     IN /\ terminated' = IF agent # 0 THEN [terminated EXCEPT ![agent] = @ + 1]
                         ELSE terminated
        /\ activeSessions' = MapDelete(activeSessions, sid)
        /\ written' = SessionsResponse(sid, 200, "message")
  /\ UNCHANGED <<stVars, flVars, mcVars, cvVars>>

handleSessionTerminate(sid) ==
  /\ DeleteReceived(sid)
  /\ LET agent == MapGet(activeSessions, sid)
     IN IF agent # 0
        THEN /\ terminated' = [terminated EXCEPT ![agent] = @ + 1]
             /\ activeSessions' = MapDelete(activeSessions, sid)
             /\ written' = SessionsResponse(sid, 200, "message")
        ELSE /\ written' = SessionsResponse(sid, 404, "error")
             /\ UNCHANGED <<activeSessions, terminated>>
  /\ UNCHANGED <<stVars, flVars, mcVars, cvVars>>

GatewayNext ==
  \/ \E c \in Clients : ChatArrive(c)
  \/ \E c \in Clients : ChatMalformed(c)
  \/ \E c \in Clients, sid \in {0} \cup SessionIds, approvalMode \in ApprovalModes :
       ChatResolve(c, ChatRequest(sid, approvalMode))
  \/ \E c \in Clients : BuildDone(c)
  \/ \E c \in Clients, error \in ReadFileErrors : BuildFail(c, error)
  \/ \E c \in Clients, item \in Items : AgentEmit(c, item)
  \/ \E c \in Clients : RunDone(c)
  \/ \E c \in Clients, error \in Thrown : RunFail(c, error)
  \/ UnknownRoute
  \/ TerminateNoId
  \/ \E sid \in SessionIds : handleSessionTerminate(sid)

(* ======================= the stream adapter ============================ *)
(* createStreamAdapter makes an object-mode Readable whose read() does      *)
(* nothing, starts a pump that pushes one transformed chunk per native     *)
(* chunk, and returns the Readable with controller.abort.  The consumer    *)
(* iterates the Readable (for await).  Of Node's Readable the model keeps  *)
(* the buffer and the flags ended, destroyed and errored.                  *)

(* a part of a native chunk's candidates[0].content.parts: its text and   *)
(* its functionCall; <<>> and "" stand for an absent (or empty) field      *)
Part(text, fcName, fcArgs) == [text |-> text, fcName |-> fcName, fcArgs |-> fcArgs]

(* a native chunk: candidates[0].content.parts and                         *)
(* candidates[0].finishReason ("": absent)                                 *)
NativeOf(parts, finishReason) == [parts |-> parts, finishReason |-> finishReason]

(* a native chunk of one part *)
Native(text, fcName, fcArgs, finishReason) ==
  NativeOf(<<Part(text, fcName, fcArgs)>>, finishReason)

NativeChunks ==
  { Native(<<"Hel">>, "", "", ""),
    Native(<<"lo">>, "", "", "STOP"),
    Native(<<>>, "get_weather", "location:London", ""),
    Native(<<>>, "", "", ""),
    NativeOf(<<Part(<<"wor">>, "", ""), Part(<<"ld">>, "", "")>>, ""),
    NativeOf(<<Part(<<"checking">>, "", ""), Part(<<>>, "get_weather", "location:Paris")>>,
             "") }

(* JSON.stringify(fc.args || {}) *)
StringifyArgs(fcArgs) == IF fcArgs = "" THEN "{}" ELSE "{" \o fcArgs \o "}"

(* the uniform chunk transformChunk builds from parts[0] of a native chunk *)
(* under the given chunk id; "" stands for null                            *)
UniformChunk(chunk, model, id) ==
  LET hasPart == Len(chunk.parts) >= 1
      content == IF hasPart THEN chunk.parts[1].text ELSE <<>>
      hasFunctionCall == hasPart /\ chunk.parts[1].fcName # ""
  IN [id |-> id, model |-> model,
      choices |-> << [index |-> 0,
                      delta |-> [role |-> "assistant",
                                 hasContent |-> ~hasFunctionCall,
                                 content |-> IF hasFunctionCall THEN <<>> ELSE content,
                                 hasToolCalls |-> hasFunctionCall,
                                 tool_calls |->
                                   IF hasFunctionCall
                                   THEN << [id |-> id, type |-> "function",
                                            name |-> chunk.parts[1].fcName,
                                            arguments |->
                                              StringifyArgs(chunk.parts[1].fcArgs)] >>
                                   ELSE <<>>],
                      finish_reason |-> chunk.finishReason] >>]

(* a transformChunk that gives every chunk the id of the first *)
transformChunkSameId(chunk, model, index) == UniformChunk(chunk, model, 0)

(* transformChunk(chunk, model, index): the chunk id and the tool call id  *)
(* carry the index                                                         *)
transformChunk(chunk, model, index) == UniformChunk(chunk, model, index)

RECURSIVE SeqsUpTo(_, _)
SeqsUpTo(S, n) ==
  IF n = 0 THEN {<<>>}
  ELSE LET shorter == SeqsUpTo(S, n - 1)
       IN shorter \cup {Append(q, x) : q \in shorter, x \in S}

StreamStart ==
  /\ pumped = 0
  /\ pumpPc = "iterating"
  /\ buffer = <<>>
  /\ ended = FALSE
  /\ destroyed = FALSE
  /\ errored = ""
  /\ consumed = <<>>
  /\ consumerPc = "idle"
  /\ unhandled = FALSE
  /\ aborted = FALSE
  /\ abortAt = 0

StreamInit ==
  /\ upstream \in SeqsUpTo(NativeChunks, MaxChunks)
  /\ upFails \in BOOLEAN
  /\ StreamStart

(* readable.push(chunk), chunk not null: after EOF it raises                *)
(* ERR_STREAM_PUSH_AFTER_EOF by destroying the stream, unless the stream   *)
(* is destroyed already; on a destroyed stream the chunk is dropped        *)
ReadablePush(chunk) ==
  IF ended
  THEN /\ destroyed' = TRUE
       /\ errored' = IF destroyed THEN errored ELSE "ERR_STREAM_PUSH_AFTER_EOF"
       /\ UNCHANGED <<buffer, ended>>
  ELSE /\ buffer' = IF destroyed \/ errored # "" THEN buffer ELSE Append(buffer, chunk)
       /\ UNCHANGED <<ended, destroyed, errored>>

(* readable.push(null) *)
ReadablePushEOF ==
  /\ ended' = TRUE
  /\ UNCHANGED <<buffer, destroyed, errored>>

(* one iteration of the pump's for await: transform and push *)
PumpPush ==
  /\ pumpPc = "iterating"
  /\ pumped < Len(upstream)
  /\ pumped' = pumped + 1
  /\ ReadablePush(transformChunk(upstream[pumped + 1], "gemini", pumped))
  /\ UNCHANGED <<upstream, upFails, pumpPc, consumed, consumerPc, unhandled, aborted,
                 abortAt>>
  /\ UNCHANGED <<gwVars, flVars, mcVars, cvVars>>

(* the upstream is exhausted: readable.push(null) *)
PumpEnd ==
  /\ pumpPc = "iterating"
  /\ pumped = Len(upstream)
  /\ ~upFails
  /\ pumpPc' = "exited"
  /\ ReadablePushEOF
  /\ UNCHANGED <<upstream, upFails, pumped, consumed, consumerPc, unhandled, aborted,
                 abortAt>>
  /\ UNCHANGED <<gwVars, flVars, mcVars, cvVars>>

(* readable.emit('error', error): the stream's 'error' listeners get the   *)
(* error; with no listener the emit throws it at its caller and the stream *)
(* keeps its state. The only listener is the one the consumer's iteration  *)
(* holds from its first next() until it returns or throws                  *)
ReadableEmitError ==
  IF consumerPc = "reading"
  THEN /\ errored' = IF errored = "" /\ ~destroyed THEN "upstream" ELSE errored
       /\ UNCHANGED unhandled
  ELSE /\ unhandled' = TRUE
       /\ UNCHANGED errored

(* the upstream raises: the pump's catch does readable.emit('error', error) *)
(* and nothing catches what the emit throws                                *)
PumpFail ==
  /\ pumpPc = "iterating"
  /\ pumped = Len(upstream)
  /\ upFails
  /\ pumpPc' = "exited"
  /\ ReadableEmitError
  /\ UNCHANGED <<upstream, upFails, pumped, buffer, ended, destroyed, consumed,
                 consumerPc, aborted, abortAt>>
  /\ UNCHANGED <<gwVars, flVars, mcVars, cvVars>>

(* controller.abort(): readable.push(null) *)
Abort ==
  /\ ~aborted
  /\ aborted' = TRUE
  /\ abortAt' = Len(consumed)
  /\ ReadablePushEOF
  /\ UNCHANGED <<upstream, upFails, pumped, pumpPc, consumed, consumerPc, unhandled>>
  /\ UNCHANGED <<gwVars, flVars, mcVars, cvVars>>

(* the consumer starts iterating the stream (for await): its first next()  *)
(* attaches the iteration's listeners                                      *)
ConsumerStart ==
  /\ consumerPc = "idle"
  /\ consumerPc' = "reading"
  /\ UNCHANGED <<upstream, upFails, pumped, pumpPc, buffer, ended, destroyed, errored,
                 consumed, unhandled, aborted, abortAt>>
  /\ UNCHANGED <<gwVars, flVars, mcVars, cvVars>>

(* the consumer's iteration takes the next buffered chunk *)
ConsumerRead ==
  /\ consumerPc = "reading"
  /\ ~destroyed
  /\ buffer # <<>>
  /\ consumed' = Append(consumed, Head(buffer))
  /\ buffer' = Tail(buffer)
  /\ UNCHANGED <<upstream, upFails, pumped, pumpPc, ended, destroyed, errored,
                 consumerPc, unhandled, aborted, abortAt>>
  /\ UNCHANGED <<gwVars, flVars, mcVars, cvVars>>

(* the buffer is drained after EOF: the iteration ends, the stream is      *)
(* destroyed (autoDestroy)                                                 *)
ConsumerEnd ==
  /\ consumerPc = "reading"
  /\ ~destroyed
  /\ errored = ""
  /\ buffer = <<>>
  /\ ended
  /\ consumerPc' = "ended"
  /\ destroyed' = TRUE
  /\ UNCHANGED <<upstream, upFails, pumped, pumpPc, buffer, ended, errored, consumed,
                 unhandled, aborted, abortAt>>
  /\ UNCHANGED <<gwVars, flVars, mcVars, cvVars>>

(* an error was raised on the stream: the iteration throws it *)
ConsumerFail ==
  /\ consumerPc = "reading"
  /\ errored # ""
  /\ destroyed \/ buffer = <<>>
  /\ consumerPc' = "failed"
  /\ destroyed' = TRUE
  /\ UNCHANGED <<upstream, upFails, pumped, pumpPc, buffer, ended, errored, consumed,
                 unhandled, aborted, abortAt>>
  /\ UNCHANGED <<gwVars, flVars, mcVars, cvVars>>

StreamNext ==
  \/ PumpPush
  \/ PumpEnd
  \/ PumpFail
  \/ Abort
  \/ ConsumerStart
  \/ ConsumerRead
  \/ ConsumerEnd
  \/ ConsumerFail

(* ============== create(): uniform messages to native contents ========== *)
(* a text is a sequence of pieces, '' the empty sequence; a content part   *)
(* is a bare string (type "string" here), a {type: 'text', text} part (its *)
(* text may be missing: <<>>, which join renders as '') or a part of any   *)
(* other type                                                              *)
MaxParts == 3

ContentPart(type, text) == [type |-> type, text |-> text]

ContentParts ==
  { ContentPart("text", <<"a">>), ContentPart("text", <<"b">>), ContentPart("text", <<>>),
    ContentPart("image_url", <<>>), ContentPart("string", <<"s">>) }

(* msg.content: a string, an array of parts, or something else *)
ChatMessage(role, kind, text, parts) ==
  [role |-> role, kind |-> kind, text |-> text, parts |-> parts]

ChatMessages ==
  { ChatMessage(role, "string", text, <<>>) :
      role \in {"user", "assistant", "tool"}, text \in {<<>>, <<"hello">>} }
  \cup { ChatMessage(role, "array", <<>>, parts) :
      role \in {"user", "assistant", "tool"}, parts \in SeqsUpTo(ContentParts, MaxParts) }
  \cup { ChatMessage(role, "other", <<>>, <<>>) : role \in {"user", "assistant", "tool"} }

NoChatMessage == ChatMessage("", "other", <<>>, <<>>)

(* c => typeof c === 'string' ? c : (c.type === 'text' ? c.text : '') *)
PartText(c) == IF c.type \in {"string", "text"} THEN c.text ELSE <<>>

(* Array.prototype.join(separator) *)
RECURSIVE Join(_, _)
Join(texts, separator) ==
  IF texts = <<>> THEN <<>>
  ELSE IF Len(texts) = 1 THEN texts[1]
  ELSE texts[1] \o <<separator>> \o Join(Tail(texts), separator)

(* the content of a message flattened to one text *)
FlattenContent(msg) ==
  IF msg.kind = "string" THEN msg.text
  ELSE IF msg.kind = "array"
       THEN Join([i \in 1..Len(msg.parts) |-> PartText(msg.parts[i])], " ")
       ELSE <<>>

(* the native content of one message *)
ToNativeContent(msg) ==
  [role |-> IF msg.role = "assistant" THEN "model" ELSE "user",
   parts |-> << [text |-> FlattenContent(msg)] >>]

ConvertIdle ==
  /\ chatMessage = NoChatMessage
  /\ contents = <<>>

ConvertInit ==
  /\ chatMessage \in ChatMessages
  /\ contents = <<>>

(* nonSystemMessages.map(msg => ...) on the one message *)
ConvertMessage ==
  /\ contents = <<>>
  /\ contents' = <<ToNativeContent(chatMessage)>>
  /\ UNCHANGED chatMessage
  /\ UNCHANGED <<gwVars, stVars, flVars, mcVars>>

ConvertNext == ConvertMessage

(* ====================== the capability filter ========================== *)
(* the messages given to the filter: any role, text or non-text content,   *)
(* no tool_calls or up to MaxCalls calls by read, write and other names    *)
ToolNames == {"Read", "Grep", "Edit", "Bash", "mcp__search"}

CallsOf(names) == [i \in 1..Len(names) |-> Call(i, names[i])]

Messages ==
  { Msg(role, isStr, IF isStr THEN text ELSE <<>>, hasCalls,
        IF hasCalls THEN CallsOf(names) ELSE <<>>,
        IF role = "tool" THEN "c1" ELSE "") :
      role \in {"assistant", "user", "tool"},
      isStr \in BOOLEAN,
      text \in {<<>>, <<"plan">>},
      hasCalls \in BOOLEAN,
      names \in SeqsUpTo(ToolNames, MaxCalls) }

NoMessage == Msg("", FALSE, <<>>, FALSE, <<>>, "")

FilterIdle ==
  /\ fItem = NoMessage
  /\ fOut = NoMessage
  /\ fCalls = 0

FilterInit ==
  /\ fItem \in Messages
  /\ fOut = NoMessage
  /\ fCalls = 0

(* filterMessageForReadOnly(item) *)
FilterCall ==
  /\ fCalls = 0
  /\ fOut' = filterMessageForReadOnly(fItem)
  /\ fCalls' = 1
  /\ UNCHANGED <<fItem, gwVars, stVars, mcVars, cvVars>>

(* the result is filtered again *)
FilterAgain ==
  /\ fCalls = 1
  /\ fItem' = fOut
  /\ fOut' = filterMessageForReadOnly(fOut)
  /\ fCalls' = 2
  /\ UNCHANGED <<gwVars, stVars, mcVars, cvVars>>

FilterNext ==
  \/ FilterCall
  \/ FilterAgain

(* ==================== the model availability cache ===================== *)
(* A model id is text, a sequence of tokens in which " " is white space;   *)
(* the argument of isModelSupported is a string or absent (null,           *)
(* undefined).  A model list is modelled by the set of its ids.            *)
Str(text) == [isString |-> TRUE, text |-> text]

Absent == [isString |-> FALSE, text |-> <<>>]

JustO4Mini == {<<"o4-mini">>}

RECOMMENDED_MODELS == {<<"o4-mini">>, <<"o3">>}

(* text.trim() *)
RECURSIVE trim(_)
trim(text) ==
  IF text = <<>> THEN <<>>
  ELSE IF Head(text) = " " THEN trim(Tail(text))
  ELSE IF text[Len(text)] = " " THEN trim(SubSeq(text, 1, Len(text) - 1))
  ELSE text

(* the ids callers ask about *)
AskedModels ==
  {Absent, Str(<<>>), Str(<<" ">>), Str(<<"o3">>), Str(<<"o4-mini">>),
   Str(<<"gpt-4o">>), Str(<<" ", "gpt-4o">>), Str(<<"nonexistent-model-xyz">>)}

(* the lists a backend can hold *)
BackendLists == {{}, {<<"gpt-4o">>}, {<<"gpt-4o">>, <<"o3">>}}

Callers == {1, 2}

NoCall == [op |-> "", model |-> Absent]

NoReturn == [caller |-> 0, op |-> "", model |-> Absent, value |-> {}, supported |-> FALSE,
             by |-> ""]

CacheStart ==
  /\ modelsPromise = "null"
  /\ models = {}
  /\ fetches = 0
  /\ listCalls = 0
  /\ reports = 0
  /\ lookup = [k \in Callers |-> NoCall]
  /\ nLookups = 0
  /\ returned = NoReturn

CacheIdle ==
  /\ apiKey = TRUE
  /\ backendFails = FALSE
  /\ backendList = {}
  /\ CacheStart

CacheInit ==
  /\ apiKey \in BOOLEAN
  /\ backendFails \in BOOLEAN
  /\ backendList \in BackendLists
  /\ CacheStart

(* fetchModels(config) up to its first await: without an API key it        *)
(* returns [] at once (the promise is fulfilled), with one it calls        *)
(* openai.models.list() and suspends                                       *)
fetchModelsUnchecked ==
  /\ fetches' = fetches + 1
  /\ modelsPromise' = "pending"
  /\ listCalls' = listCalls + 1
  /\ UNCHANGED <<models, reports>>

fetchModels ==
  /\ fetches' = fetches + 1
  /\ IF ~apiKey
     THEN /\ reports' = reports + 1
          /\ modelsPromise' = "fulfilled"
          /\ models' = {}
          /\ UNCHANGED listCalls
     ELSE /\ modelsPromise' = "pending"
          /\ listCalls' = listCalls + 1
          /\ UNCHANGED <<models, reports>>

(* !modelsPromise *)
AlwaysFetch(promise) == TRUE

NoPromise(promise) == promise = "null"

(* getAvailableModels(config) up to returning modelsPromise *)
getAvailableModels ==
  IF NoPromise(modelsPromise)
  THEN fetchModels
  ELSE UNCHANGED <<modelsPromise, models, fetches, listCalls, reports>>

(* a call is made: callers are interchangeable, the least idle one calls *)
CanCall(k) ==
  /\ nLookups < MaxLookups
  /\ lookup[k] = NoCall
  /\ \A j \in Callers : j < k => lookup[j] # NoCall

(* preloadModels(config): starts the fetch if there is no promise, returns *)
PreloadModels(k) ==
  /\ CanCall(k)
  /\ nLookups' = nLookups + 1
  /\ IF NoPromise(modelsPromise)
     THEN getAvailableModels
     ELSE UNCHANGED <<modelsPromise, models, fetches, listCalls, reports>>
  /\ returned' = [NoReturn EXCEPT !.caller = k, !.op = "preloadModels"]
  /\ UNCHANGED <<apiKey, backendFails, backendList, lookup>>
  /\ UNCHANGED <<gwVars, stVars, flVars, cvVars>>

(* await getAvailableModels(config): the caller suspends on modelsPromise *)
GetAvailableModels(k) ==
  /\ CanCall(k)
  /\ nLookups' = nLookups + 1
  /\ getAvailableModels
  /\ lookup' = [lookup EXCEPT ![k] = [op |-> "getAvailableModels", model |-> Absent]]
  /\ returned' = NoReturn
  /\ UNCHANGED <<apiKey, backendFails, backendList>>
  /\ UNCHANGED <<gwVars, stVars, flVars, cvVars>>

(* modelsPromise is fulfilled: the awaiting caller gets its value *)
GetAvailableModelsReturn(k) ==
  /\ lookup[k].op = "getAvailableModels"
  /\ modelsPromise = "fulfilled"
  /\ lookup' = [lookup EXCEPT ![k] = NoCall]
  /\ returned' = [NoReturn EXCEPT !.caller = k, !.op = "getAvailableModels",
                                  !.value = models]
  /\ UNCHANGED <<apiKey, backendFails, backendList, modelsPromise, models, fetches,
                 listCalls, reports, nLookups>>
  /\ UNCHANGED <<gwVars, stVars, flVars, cvVars>>

(* typeof model !== "string" || model.trim() === "" ||                     *)
(* RECOMMENDED_MODELS.includes(model)                                      *)
TriviallySupported(model) ==
  \/ ~model.isString
  \/ trim(model.text) = <<>>
  \/ model.text \in RECOMMENDED_MODELS

(* isModelSupported(model, config) up to its return true or to its await   *)
(* of the race between getAvailableModels(config) and the timeout          *)
IsModelSupported(k, model) ==
  /\ CanCall(k)
  /\ nLookups' = nLookups + 1
  /\ IF TriviallySupported(model)
     THEN /\ returned' = [NoReturn EXCEPT !.caller = k, !.op = "isModelSupported",
                                          !.model = model, !.supported = TRUE,
                                          !.by = "trivial"]
          /\ UNCHANGED <<modelsPromise, models, fetches, listCalls, reports, lookup>>
     ELSE /\ getAvailableModels
          /\ lookup' = [lookup EXCEPT ![k] = [op |-> "isModelSupported", model |-> model]]
          /\ returned' = NoReturn
  /\ UNCHANGED <<apiKey, backendFails, backendList>>
  /\ UNCHANGED <<gwVars, stVars, flVars, cvVars>>

(* models.length === 0 ? true : models.includes(model.trim()) *)
IncludesStrictly(list, model) == trim(model.text) \in list

Includes(list, model) ==
  IF list = {} THEN TRUE ELSE trim(model.text) \in list

(* the race is won by modelsPromise *)
RaceFetched(k) ==
  /\ lookup[k].op = "isModelSupported"
  /\ modelsPromise = "fulfilled"
  /\ lookup' = [lookup EXCEPT ![k] = NoCall]
  /\ returned' = [NoReturn EXCEPT !.caller = k, !.op = "isModelSupported",
                                  !.model = lookup[k].model, !.value = models,
                                  !.supported = Includes(models, lookup[k].model),
                                  !.by = "fetch"]
  /\ UNCHANGED <<apiKey, backendFails, backendList, modelsPromise, models, fetches,
                 listCalls, reports, nLookups>>
  /\ UNCHANGED <<gwVars, stVars, flVars, cvVars>>

(* the race is won by the timeout, which resolves to []: modelsPromise is  *)
(* still pending when the timer fires                                      *)
RaceTimedOut(k) ==
  /\ lookup[k].op = "isModelSupported"
  /\ modelsPromise = "pending"
  /\ lookup' = [lookup EXCEPT ![k] = NoCall]
  /\ returned' = [NoReturn EXCEPT !.caller = k, !.op = "isModelSupported",
                                  !.model = lookup[k].model,
                                  !.supported = Includes({}, lookup[k].model),
                                  !.by = "timeout"]
  /\ UNCHANGED <<apiKey, backendFails, backendList, modelsPromise, models, fetches,
                 listCalls, reports, nLookups>>
  /\ UNCHANGED <<gwVars, stVars, flVars, cvVars>>

(* the backend answers: fetchModels returns the sorted ids, or [] from its *)
(* catch when the request failed                                           *)
FetchSettled ==
  /\ modelsPromise = "pending"
  /\ modelsPromise' = "fulfilled"
  /\ models' = IF backendFails THEN {} ELSE backendList
  /\ returned' = NoReturn
  /\ UNCHANGED <<apiKey, backendFails, backendList, fetches, listCalls, reports, lookup,
                 nLookups>>
  /\ UNCHANGED <<gwVars, stVars, flVars, cvVars>>

CacheNext ==
  \/ \E k \in Callers : PreloadModels(k)
  \/ \E k \in Callers : GetAvailableModels(k)
  \/ \E k \in Callers : GetAvailableModelsReturn(k)
  \/ \E k \in Callers, model \in AskedModels : IsModelSupported(k, model)
  \/ \E k \in Callers : RaceFetched(k)
  \/ \E k \in Callers : RaceTimedOut(k)
  \/ FetchSettled

(* ========================= specifications ============================== *)
vars == <<gwVars, stVars, flVars, mcVars, cvVars>>

(* the gateway, no stream open *)
Init ==
  /\ GatewayInit
  /\ upstream = <<>>
  /\ upFails = FALSE
  /\ StreamStart
  /\ FilterIdle
  /\ CacheIdle
  /\ ConvertIdle

Next == GatewayNext

Spec == Init /\ [][Next]_vars

(* one stream of the adapter, the gateway idle *)
InitStream == StreamInit /\ GatewayInit /\ FilterIdle /\ CacheIdle /\ ConvertIdle

NextStream == StreamNext

SpecStream == InitStream /\ [][NextStream]_vars

(* the same stream under the event loop's scheduling: a pump continuation  *)
(* that is ready runs (the upstream yields, ends or fails), and a consumer *)
(* that iterates keeps iterating; nothing obliges anyone to abort          *)
StreamFairness ==
  /\ WF_vars(PumpPush)
  /\ WF_vars(PumpEnd)
  /\ WF_vars(PumpFail)
  /\ WF_vars(ConsumerStart)
  /\ WF_vars(ConsumerRead)
  /\ WF_vars(ConsumerEnd)
  /\ WF_vars(ConsumerFail)

SpecStreamFair == InitStream /\ [][NextStream]_vars /\ StreamFairness

(* the capability filter applied to one message, gateway and stream idle *)
InitFilter ==
  /\ FilterInit
  /\ GatewayInit
  /\ upstream = <<>>
  /\ upFails = FALSE
  /\ StreamStart
  /\ CacheIdle
  /\ ConvertIdle

NextFilter == FilterNext

SpecFilter == InitFilter /\ [][NextFilter]_vars

(* the model availability cache and its callers, the rest idle *)
InitCache ==
  /\ CacheInit
  /\ GatewayInit
  /\ upstream = <<>>
  /\ upFails = FALSE
  /\ StreamStart
  /\ FilterIdle
  /\ ConvertIdle

NextCache == CacheNext

SpecCache == InitCache /\ [][NextCache]_vars

(* the conversion of one message by create(), the rest idle *)
InitConvert ==
  /\ ConvertInit
  /\ GatewayInit
  /\ upstream = <<>>
  /\ upFails = FALSE
  /\ StreamStart
  /\ FilterIdle
  /\ CacheIdle

NextConvert == ConvertNext

SpecConvert == InitConvert /\ [][NextConvert]_vars

(* ============================== claims ================================= *)
MapFilter(items) == [i \in 1..Len(items) |-> filterMessageForReadOnly(items[i])]

HasWriteCall(m) == \E i \in 1..Len(m.tool_calls) : m.tool_calls[i].name \in WRITE_TOOLS

InFlight(c) == pc[c] \in {"building", "running"}

ResolveStep(c) == pc[c] = "reading" /\ pc'[c] = "building"

ChatAnswered == written.route = "chat" /\ turn.caller # 0

(* C1: the messages of every /chat response are exactly the filtered       *)
(* messages the agent emitted during that turn, in emission order, on a    *)
(* new session and on a reused one, whether the turn completed or failed   *)
(* (turns that shared their agent with a concurrent request set aside).    *)
C1_ResponseIsFilteredEmission ==
  (ChatAnswered /\ ~turn.raced) => written.messages = MapFilter(turn.emitted)

(* C2: no assistant message of a /chat response carries a tool call whose  *)
(* name is in the write-capability set.                                    *)
C2_ReadOnlyResponses ==
  \A i \in 1..Len(written.messages) :
    written.messages[i].role = "assistant" => ~HasWriteCall(written.messages[i])

C2_Witness ==
  /\ ChatAnswered
  /\ \E i \in 1..Len(written.messages) :
       /\ i <= Len(turn.emitted)
       /\ HasWriteCall(turn.emitted[i])
       /\ written.messages[i] = filterMessageForReadOnly(turn.emitted[i])

(* C3: once the consumer has called controller.abort() after observing N   *)
(* chunks, it never observes a chunk N+1.                                  *)
C3_NoChunkAfterAbort == aborted => Len(consumed) <= abortAt

(* C4: after controller.abort() the consumer observes end of stream and    *)
(* never an error, also when the upstream goes on yielding chunks (the     *)
(* upstream itself raising no error).                                      *)
C4_AbortEndsCleanly == (aborted /\ ~upFails) => consumerPc # "failed"

(* C5: a POST /chat whose session id was used by an earlier POST /chat,    *)
(* with no DELETE of that id in between, runs on the same agent and        *)
(* constructs none; a POST /chat with an id after a DELETE of that id      *)
(* constructs a new agent, distinct from every agent that id ever had.     *)
C5_SessionReuse ==
  [][\A c \in Clients :
       ResolveStep(c) =>
         LET id == sessionId'[c]
         IN IF id \in DOMAIN bound
            THEN agentOf'[c] = bound[id] /\ agents' = agents
            ELSE /\ Len(agents') = Len(agents) + 1
                 /\ agentOf'[c] = Len(agents')
                 /\ terminated'[agentOf'[c]] = 0
                 /\ \A a \in DOMAIN agents :
                      registeredAs[a] = id => agentOf'[c] # a]_vars

C5_Witness ==
  \E c \in Clients, a \in DOMAIN agents :
    /\ InFlight(c)
    /\ registeredAs[a] = sessionId[c]
    /\ terminated[a] = 1
    /\ agentOf[c] # a
    /\ terminated[agentOf[c]] = 0

(* C6 as stated: a POST /chat with no sessionId, or with one that is not   *)
(* in the registry, gets a newly generated session id and a new agent.     *)
C6_MintsFreshId ==
  [][\A c \in Clients :
       (ResolveStep(c) /\ given'[c] \notin DOMAIN activeSessions) =>
         /\ sessionId'[c] \notin {0, given'[c]} \cup ClientIds \cup Minted
         /\ Len(agents') = Len(agents) + 1]_vars

(* C6 amended: a POST /chat with no sessionId gets a newly generated       *)
(* session id; one with a sessionId that is not in the registry keeps the  *)
(* id it supplied.  In both cases a new agent is constructed with the      *)
(* read-only policy (approval policy suggest, every command denied) and    *)
(* is registered under that id.                                            *)
C6_MintsOrAdoptsId ==
  [][\A c \in Clients :
       (ResolveStep(c) /\ given'[c] \notin DOMAIN activeSessions) =>
         LET id == sessionId'[c]
             a == Len(agents) + 1
         IN /\ IF given'[c] = 0
               THEN id \notin {0} \cup ClientIds \cup Minted \cup DOMAIN activeSessions
               ELSE id = given'[c]
            /\ Len(agents') = a
            /\ agentOf'[c] = a
            /\ agents'[a].approvalPolicy = "suggest"
            /\ agents'[a].confirmation = "no-continue"
            /\ DOMAIN activeSessions' = DOMAIN activeSessions \cup {id}
            /\ activeSessions'[id] = a
            /\ \A s \in DOMAIN activeSessions : activeSessions'[s] = activeSessions[s]]_vars

C6_Witness ==
  \E c \in Clients :
    /\ InFlight(c)
    /\ given[c] \in ClientIds
    /\ sessionId[c] = given[c]
    /\ agents[agentOf[c]].sink = c
    /\ activeSessions = (sessionId[c] :> agentOf[c])

(* C7: every agent that has not been terminated is the one the registry    *)
(* holds for the id it was registered under, so no id has two live         *)
(* agents; and every handler in flight on a live agent holds the agent the *)
(* registry maps its session id to, so concurrent requests with one        *)
(* unknown id construct one agent and all run on it.                       *)
C7_OneAgentPerSession ==
  /\ \A a \in DOMAIN agents :
       terminated[a] = 0 =>
         /\ registeredAs[a] \in DOMAIN activeSessions
         /\ activeSessions[registeredAs[a]] = a
  /\ \A c \in Clients :
       (InFlight(c) /\ terminated[agentOf[c]] = 0) =>
         /\ sessionId[c] \in DOMAIN activeSessions
         /\ activeSessions[sessionId[c]] = agentOf[c]
  /\ \A c, d \in Clients :
       (InFlight(c) /\ InFlight(d) /\ sessionId[c] = sessionId[d]
          /\ terminated[agentOf[c]] = 0 /\ terminated[agentOf[d]] = 0) =>
         agentOf[c] = agentOf[d]

C7_Witness ==
  \E c, d \in Clients :
    /\ c # d
    /\ InFlight(c) /\ InFlight(d)
    /\ given[c] \in ClientIds /\ given[d] = given[c]
    /\ agentOf[c] = agentOf[d]
    /\ Len(agents) = 1
    /\ terminated[agentOf[c]] = 0

(* C8: a failure raised while building the input item or inside agent.run  *)
(* is answered 200 with status "error" and a non-empty error string, and   *)
(* leaves the session registered with the same agent; the status is        *)
(* "completed" with no error field exactly when no failure was raised.     *)
C8_FailureReported ==
  ChatAnswered =>
    /\ written.code = 200
    /\ turn.failure =>
         /\ written.status = "error"
         /\ written.hasError
         /\ written.error # ""
         /\ terminated[turn.agent] = 0 =>
              /\ written.sessionId \in DOMAIN activeSessions
              /\ activeSessions[written.sessionId] = turn.agent
    /\ ~turn.failure <=> (written.status = "completed" /\ ~written.hasError)

(* C9: DELETE /sessions/{id} for an id in the registry calls terminate()   *)
(* once on that session's agent and on no other, removes that id alone     *)
(* from the registry, and answers 200 with a message body.                 *)
C9_TerminateFound ==
  [][\A sid \in SessionIds :
       (written'.route = "sessions" /\ written'.sessionId = sid
          /\ sid \in DOMAIN activeSessions) =>
         /\ written'.code = 200
         /\ written'.body = "message"
         /\ terminated' = [terminated EXCEPT ![activeSessions[sid]] = @ + 1]
         /\ DOMAIN activeSessions' = (DOMAIN activeSessions) \ {sid}
         /\ \A s \in DOMAIN activeSessions' : activeSessions'[s] = activeSessions[s]]_vars

C9_Witness ==
  /\ written.route = "sessions"
  /\ written.code = 200
  /\ DOMAIN activeSessions # {}
  /\ \E a \in DOMAIN agents :
       /\ registeredAs[a] = written.sessionId
       /\ terminated[a] = 1

(* C10: DELETE /sessions/{id} for an id that is not in the registry, never *)
(* created or already terminated, answers 404 with an error body, calls    *)
(* terminate() on no agent and leaves the registry as it is.               *)
C10_TerminateNotFound ==
  [][\A sid \in SessionIds :
       (written'.route = "sessions" /\ written'.sessionId = sid
          /\ sid \notin DOMAIN activeSessions) =>
         /\ written'.code = 404
         /\ written'.body = "error"
         /\ terminated' = terminated
         /\ activeSessions' = activeSessions]_vars

C10_Witness ==
  /\ written.route = "sessions"
  /\ written.code = 404
  /\ written.sessionId \notin DOMAIN activeSessions
  /\ \E a \in DOMAIN agents :
       /\ registeredAs[a] = written.sessionId
       /\ terminated[a] = 1

(* C16: requests that differ only in approvalMode are handled alike: the   *)
(* step that handles a parsed request is, for every other approvalMode,    *)
(* the step that handles the request with that approvalMode (same registry, *)
(* same agent constructed, same handler state); every agent has the most   *)
(* restrictive approval policy and a getCommandConfirmation that denies.   *)
C16_ApprovalModeIgnored ==
  [][\A c \in Clients :
       ResolveStep(c) =>
         /\ parsed'.caller = c
         /\ \A m \in ApprovalModes :
              ChatHandle(c, ChatRequest(parsed'.chatRequest.sessionId, m))
         /\ \A a \in DOMAIN agents' :
              /\ agents'[a].approvalPolicy = "suggest"
              /\ agents'[a].confirmation = "no-continue"]_vars

C16_Witness ==
  /\ parsed.caller # 0
  /\ parsed.chatRequest.approvalMode = "full-auto"
  /\ agents[agentOf[parsed.caller]].sink = parsed.caller
  /\ agents[agentOf[parsed.caller]].approvalPolicy = "suggest"

(* C17: a POST /chat whose body is not a well-formed request, and a        *)
(* request that matches no route, are answered with a 4xx status and an    *)
(* error body, and leave the registry and the other handlers as they are.  *)
C17_ProtocolErrorsAre4xx ==
  [][((written'.route = "chat" /\ turn'.caller = 0) \/ written'.route = "other") =>
       /\ written'.code \in 400..499
       /\ written'.body = "error"
       /\ activeSessions' = activeSessions
       /\ agents' = agents
       /\ terminated' = terminated]_vars

(* ------------------------ the capability filter ------------------------ *)
NamedRead(call) == call.name \in READ_ONLY_TOOLS

NamedWrite(call) == call.name \in WRITE_TOOLS

HasReadCall(m) == \E i \in 1..Len(m.tool_calls) : NamedRead(m.tool_calls[i])

(* the names of the calls, in order, with ", " between neighbours *)
CommaJoined(calls) ==
  [i \in 1..(2 * Len(calls) - 1) |->
     IF i % 2 = 1 THEN calls[(i + 1) \div 2].name ELSE ", "]

(* the note for message m: the fixed text around its write calls' names *)
NoteFor(m) ==
  <<NoteHead>> \o CommaJoined(SelectSeq(m.tool_calls, NamedWrite)) \o <<NoteTail>>

EndsWith(text, tail) ==
  /\ Len(text) >= Len(tail)
  /\ SubSeq(text, Len(text) - Len(tail) + 1, Len(text)) = tail

StartsWith(text, head) ==
  /\ Len(text) >= Len(head)
  /\ SubSeq(text, 1, Len(head)) = head

(* the filter has been called once, on an assistant message with calls *)
FilteredAssistant ==
  fCalls = 1 /\ fItem.role = "assistant" /\ fItem.hasToolCalls

(* C11: for an assistant message with both read and write calls, the       *)
(* output's tool_calls are exactly the message's read calls, unchanged and *)
(* in order, none of them a write call, and the content ends with the note *)
(* naming all stripped write calls, joined by ", " in order.               *)
C11_MixedKeepsReadCalls ==
  (FilteredAssistant /\ HasReadCall(fItem) /\ HasWriteCall(fItem)) =>
    /\ fOut.hasToolCalls
    /\ fOut.tool_calls = SelectSeq(fItem.tool_calls, NamedRead)
    /\ ~HasWriteCall(fOut)
    /\ fOut.contentIsString
    /\ EndsWith(fOut.content, NoteFor(fItem))

C11_Witness ==
  /\ FilteredAssistant
  /\ Len(SelectSeq(fItem.tool_calls, NamedWrite)) = 2
  /\ Len(fOut.tool_calls) = 1
  /\ fOut.tool_calls[1].id = 2

(* C12: for an assistant message whose calls are all write calls, the      *)
(* output has no tool_calls and its content ends with the note.            *)
C12_WriteOnlyClearsCalls ==
  (FilteredAssistant /\ fItem.tool_calls # <<>>
     /\ \A i \in 1..Len(fItem.tool_calls) : NamedWrite(fItem.tool_calls[i])) =>
    /\ ~fOut.hasToolCalls
    /\ fOut.tool_calls = <<>>
    /\ fOut.contentIsString
    /\ EndsWith(fOut.content, NoteFor(fItem))

C12_Witness ==
  /\ FilteredAssistant
  /\ Len(fItem.tool_calls) = 2
  /\ \A i \in 1..2 : NamedWrite(fItem.tool_calls[i])
  /\ ~fOut.hasToolCalls

(* C13: for an assistant message with at least one write call, the filtered *)
(* content is the original text content followed by the note: the original *)
(* text is a prefix of it, whether read calls remain or not.               *)
C13_NoteAppendedToText ==
  (FilteredAssistant /\ HasWriteCall(fItem) /\ fItem.contentIsString) =>
    /\ StartsWith(fOut.content, fItem.content)
    /\ EndsWith(fOut.content, NoteFor(fItem))

(* C14: a call whose name is in neither set is retained in the filtered    *)
(* message's tool_calls, for every message that carries it, also one that  *)
(* carries write calls.                                                    *)
C14_OtherCallsRetained ==
  fCalls = 1 =>
    \A i \in 1..Len(fItem.tool_calls) :
      (~NamedRead(fItem.tool_calls[i]) /\ ~NamedWrite(fItem.tool_calls[i])) =>
        \E j \in 1..Len(fOut.tool_calls) : fOut.tool_calls[j] = fItem.tool_calls[i]

(* C15: the filter returns unchanged every message that carries no write   *)
(* call (no calls, read calls only, role tool), and filtering a filtered   *)
(* message returns it unchanged.                                           *)
C15_IdentityWithoutWriteCalls ==
  /\ (fCalls = 1 /\ (~HasWriteCall(fItem) \/ fItem.role = "tool")) => fOut = fItem
  /\ fCalls = 2 => fOut = fItem

C15_Witness ==
  /\ fCalls = 2
  /\ fItem.role = "assistant"
  /\ fItem.hasToolCalls
  /\ HasReadCall(fItem)
  /\ StartsWith(fItem.content, <<"plan", "\n\n", NoteHead>>)

(* -------------------- the model availability cache --------------------- *)
(* C18: over every interleaving of getAvailableModels, preloadModels and   *)
(* isModelSupported calls, fetchModels runs at most once and the backend   *)
(* is asked at most once; a call made while a promise exists starts        *)
(* nothing; every caller gets the value of the one promise; once fulfilled *)
(* the promise and its value never change, also when the value is empty.   *)
C18_SingleFlight ==
  [][/\ fetches' <= 1
     /\ listCalls' <= 1
     /\ modelsPromise # "null" =>
          (fetches' = fetches /\ listCalls' = listCalls /\ modelsPromise' # "null")
     /\ modelsPromise = "fulfilled" =>
          (modelsPromise' = "fulfilled" /\ models' = models)
     /\ (returned'.op = "getAvailableModels"
           \/ (returned'.op = "isModelSupported" /\ returned'.by = "fetch")) =>
          (modelsPromise' = "fulfilled" /\ returned'.value = models')]_vars

C18_Witness ==
  /\ returned.caller = 2
  /\ returned.op = "getAvailableModels"
  /\ lookup[1].op = "isModelSupported"
  /\ backendFails
  /\ models = {}
  /\ listCalls = 1
  /\ nLookups = 3

(* the call of isModelSupported(model) made in this step *)
IsModelSupportedCalled(model) ==
  /\ nLookups' = nLookups + 1
  /\ \/ (returned'.op = "isModelSupported" /\ returned'.model = model)
     \/ \E k \in Callers :
          lookup'[k] # lookup[k] /\ lookup'[k].op = "isModelSupported"
            /\ lookup'[k].model = model

(* C19: isModelSupported called with an absent, empty or allow-listed id   *)
(* returns true in the step of the call, whatever the state of the cache,  *)
(* and leaves the cache as it is (no fetch started).                       *)
C19_TrivialIdsSupported ==
  [][\A model \in {Absent, Str(<<>>), Str(<<"o4-mini">>), Str(<<"o3">>)} :
       IsModelSupportedCalled(model) =>
         /\ returned'.op = "isModelSupported"
         /\ returned'.supported
         /\ UNCHANGED <<modelsPromise, models, fetches, listCalls, lookup>>]_vars

C19_Witness ==
  /\ returned.op = "isModelSupported"
  /\ returned.model = Str(<<"o3">>)
  /\ returned.supported
  /\ modelsPromise = "pending"
  /\ lookup[1].op = "getAvailableModels"

(* a suspended isModelSupported call returns when its timer fires *)
ReturnsByTimeout ==
  \A k \in Callers :
    (lookup[k].op = "isModelSupported" /\ modelsPromise = "pending") =>
      ENABLED RaceTimedOut(k)

(* C20 as stated: for an id that is not allow-listed, a cache resolved     *)
(* before the timeout to a set that does not contain the id gives false;   *)
(* the timeout gives true, and the call returns by the timeout.            *)
C20_AbsentIdUnsupported ==
  /\ (returned.by = "fetch" /\ returned.model.text \notin returned.value) =>
       ~returned.supported
  /\ returned.by = "timeout" => returned.supported
  /\ ReturnsByTimeout

(* C20 amended: a cache resolved before the timeout to a non-empty set     *)
(* that does not contain the id, white space around the id dropped, gives  *)
(* false; a cache resolved to the empty set gives true; the timeout gives  *)
(* true, and the call returns by the timeout.                              *)
C20_AbsentIdUnsupportedIfListed ==
  /\ (returned.by = "fetch" /\ returned.value # {}
        /\ trim(returned.model.text) \notin returned.value) => ~returned.supported
  /\ (returned.by = "fetch" /\ returned.value = {}) => returned.supported
  /\ returned.by = "timeout" => returned.supported
  /\ ReturnsByTimeout

C20_Witness ==
  /\ returned.by = "fetch"
  /\ returned.model = Str(<<"nonexistent-model-xyz">>)
  /\ returned.value = {<<"gpt-4o">>, <<"o3">>}
  /\ ~returned.supported

(* C21: fetchModels never fails its callers.  Without an API key it        *)
(* resolves to the empty list in the step of the call, asks the backend    *)
(* nothing and reports the missing key, once in a run; when the backend    *)
(* request fails it resolves to the empty list; the promise is pending or  *)
(* fulfilled, never rejected, and getAvailableModels returns its value.    *)
C21_FetchNeverFails ==
  [][/\ (fetches' = fetches + 1 /\ ~apiKey) =>
          /\ modelsPromise' = "fulfilled"
          /\ models' = {}
          /\ listCalls' = listCalls
          /\ reports' = reports + 1
     /\ (fetches' = fetches + 1 /\ apiKey) => reports' = reports
     /\ fetches' = fetches => (reports' = reports /\ listCalls' = listCalls)
     /\ reports' <= 1
     /\ (modelsPromise = "pending" /\ modelsPromise' # "pending") =>
          /\ modelsPromise' = "fulfilled"
          /\ backendFails => models' = {}
     /\ modelsPromise' \in {"null", "pending", "fulfilled"}
     /\ (returned'.op = "getAvailableModels" /\ (~apiKey \/ backendFails)) =>
          returned'.value = {}]_vars

C21_Witness ==
  /\ ~apiKey
  /\ reports = 1
  /\ listCalls = 0
  /\ nLookups = 3
  /\ returned.op = "getAvailableModels"
  /\ returned.value = {}


(* --------------------- the stream adapter's chunks ---------------------- *)
RECURSIVE Concat(_)
Concat(texts) == IF texts = <<>> THEN <<>> ELSE Head(texts) \o Concat(Tail(texts))

(* the text a native chunk carries: all its text parts, in order *)
TextOfNative(chunk) == Concat([i \in 1..Len(chunk.parts) |-> chunk.parts[i].text])

HasFunctionCallPart(chunk) == \E i \in 1..Len(chunk.parts) : chunk.parts[i].fcName # ""

(* the first part of a native chunk that is a function call *)
FunctionCallOf(chunk) ==
  chunk.parts[CHOOSE i \in 1..Len(chunk.parts) :
                /\ chunk.parts[i].fcName # ""
                /\ \A j \in 1..(i - 1) : chunk.parts[j].fcName = ""]

(* a text-only turn, its finish reason on the last native chunk alone *)
TextOnlyTurn ==
  /\ \A i \in 1..Len(upstream) : ~HasFunctionCallPart(upstream[i])
  /\ \A i \in 1..(Len(upstream) - 1) : upstream[i].finishReason = ""

DeltaOf(chunk) == chunk.choices[1].delta

(* the stream ran to its end with no cancellation and no upstream failure *)
RanToCompletion == consumerPc = "ended" /\ ~aborted /\ ~upFails

(* C22: in a text-only turn that ran to completion, the contents of the    *)
(* yielded deltas, concatenated in order, are the whole text of the native *)
(* chunks (all text parts of each), and only the last yielded chunk has a  *)
(* finish_reason                                                           *)
C22_ContentReproducesText ==
  (RanToCompletion /\ TextOnlyTurn) =>
    /\ Concat([i \in 1..Len(consumed) |-> DeltaOf(consumed[i]).content])
         = Concat([i \in 1..Len(upstream) |-> TextOfNative(upstream[i])])
    /\ \A i \in 1..(Len(consumed) - 1) : consumed[i].choices[1].finish_reason = ""

(* the uniform chunks the adapter has yielded so far: those the consumer   *)
(* has taken, then those waiting in the stream                             *)
Yielded == consumed \o buffer

(* C25: with no cancellation and no upstream failure, the adapter yields   *)
(* one uniform chunk per native chunk taken, in upstream order: the k-th   *)
(* is the transformation of the k-th native chunk, its chunk id and tool   *)
(* call id are the index k - 1 (so distinct), it has one choice; the       *)
(* consumer never fails, sees the end of the stream only after all the     *)
(* chunks of the exhausted upstream, and once the upstream is exhausted    *)
(* and all chunks are taken, the end of the stream is what comes next      *)
C25_OneChunkPerNativeInOrder ==
  (~aborted /\ ~upFails) =>
    /\ Len(Yielded) = pumped
    /\ \A k \in 1..Len(Yielded) :
         /\ Yielded[k] = UniformChunk(upstream[k], "gemini", k - 1)
         /\ Yielded[k].id = k - 1
         /\ Len(Yielded[k].choices) = 1
         /\ \A j \in 1..Len(DeltaOf(Yielded[k]).tool_calls) :
              DeltaOf(Yielded[k]).tool_calls[j].id = k - 1
         /\ \A j \in 1..Len(Yielded) : Yielded[j].id = Yielded[k].id => j = k
    /\ consumerPc # "failed"
    /\ consumerPc = "ended" =>
         (pumpPc = "exited" /\ Len(consumed) = Len(upstream) /\ buffer = <<>>)
    /\ (pumpPc = "exited" /\ consumerPc = "reading" /\ buffer = <<>>) =>
         ENABLED ConsumerEnd

C25_Witness ==
  /\ RanToCompletion
  /\ Len(upstream) = 3
  /\ Len(consumed) = 3
  /\ DeltaOf(consumed[1]).hasContent
  /\ DeltaOf(consumed[3]).hasToolCalls

(* C26: every yielded chunk has the shape its native chunk (the one of its *)
(* index) asks for: a native chunk with a function-call part gives a delta *)
(* with one tool call (the chunk's id, type function, the function's name, *)
(* its arguments serialized) and no content; any other gives a delta with  *)
(* content and no tool calls; no delta has both; finish_reason is the      *)
(* native finish reason, null when there is none                           *)
C26_FunctionCallOrContent ==
  \A k \in 1..Len(consumed) :
    LET native == upstream[consumed[k].id + 1]
        delta == DeltaOf(consumed[k])
    IN /\ HasFunctionCallPart(native) =>
            /\ delta.hasToolCalls
            /\ ~delta.hasContent
            /\ Len(delta.tool_calls) = 1
            /\ delta.tool_calls[1].type = "function"
            /\ delta.tool_calls[1].name = FunctionCallOf(native).fcName
            /\ delta.tool_calls[1].arguments = StringifyArgs(FunctionCallOf(native).fcArgs)
       /\ ~HasFunctionCallPart(native) => (delta.hasContent /\ ~delta.hasToolCalls)
       /\ ~(delta.hasContent /\ delta.hasToolCalls)
       /\ consumed[k].choices[1].finish_reason = native.finishReason

(* C23: when the upstream fails while the pump iterates it (and nobody has *)
(* aborted), the consumer eventually observes the failure instead of       *)
(* waiting forever, and no chunk is delivered to the consumer after it has *)
(* observed the failure                                                    *)
C23_FailureSurfaced ==
  /\ (pumpPc = "exited" /\ upFails /\ pumped >= 1 /\ ~aborted)
       ~> (consumerPc = "failed" \/ aborted)
  /\ [][consumerPc = "failed" => (consumerPc' = "failed" /\ consumed' = consumed)]_vars

(* C24: the end states are absorbing, and once the stream is aborted it    *)
(* stays aborted, delivers no further chunk to the consumer and surfaces   *)
(* no failure, whatever the upstream does afterwards                       *)
C24_AbortedIsTerminal ==
  [][/\ consumerPc \in {"ended", "failed"} =>
          (consumerPc' = consumerPc /\ consumed' = consumed)
     /\ aborted => aborted'
     /\ aborted => consumed' = consumed
     /\ (aborted /\ consumerPc # "failed") => consumerPc' # "failed"]_vars

(* ------------------------ content flattening ---------------------------- *)
IsTextPart(c) == c.type \in {"string", "text"}

(* the texts of the text parts of a part sequence, the other parts left out *)
TextsOf(parts) == LET textParts == SelectSeq(parts, IsTextPart)
                  IN [i \in 1..Len(textParts) |-> textParts[i].text]

RECURSIVE SpaceJoined(_)
SpaceJoined(texts) ==
  IF texts = <<>> THEN <<>>
  ELSE IF Len(texts) = 1 THEN Head(texts)
  ELSE Head(texts) \o <<" ">> \o SpaceJoined(Tail(texts))

(* C27: the content of a multi-part message is flattened to the texts of   *)
(* its text parts joined by one space each; a part that is not text adds   *)
(* neither text nor a separator                                            *)
C27_TextPartsJoinedBySpace ==
  (contents # <<>> /\ chatMessage.kind = "array") =>
    contents[1].parts[1].text = SpaceJoined(TextsOf(chatMessage.parts))

(* ------------------- a turn racing a termination ------------------------ *)
(* agent.run is called: createInputItem has resolved *)
RunStep(c) == pc[c] = "building" /\ pc'[c] = "running"

(* C28: in every interleaving of POST /chat and DELETE /sessions/{id},     *)
(* agent.run is never called on an agent that has been terminated, no      *)
(* terminated agent stays in the registry, and the sessionId of a /chat    *)
(* response is in the registry when the response is sent                   *)
C28_TerminatedAgentNeverRun ==
  [][/\ \A c \in Clients : RunStep(c) => terminated[agentOf[c]] = 0
     /\ \A sid \in DOMAIN activeSessions' : terminated'[activeSessions'[sid]] = 0
     /\ (written'.route = "chat" /\ turn'.caller # 0) =>
          written'.sessionId \in DOMAIN activeSessions']_vars

=============================================================================
